---- MODULE Spec2Model ----
(***************************************************************************)
(* h3forge: vector_to_h3 (indexing of geometries onto the H3 grid) and     *)
(* h3_aggregation (roll-up of hex rows to a coarser resolution and to time *)
(* buckets), as a state machine with one action per call of a function.    *)
(*                                                                         *)
(* A data frame is a record [cols, numeric, hasDate, hasGeom, rows]: cols  *)
(* are the attribute columns (every column but hex/date/geometry), numeric *)
(* the ones pandas holds with a numeric dtype, hasDate / hasGeom tell      *)
(* whether the 'date' / 'geometry' column exists, rows is the sequence of  *)
(* rows.  A date string is the tuple of its zero-padded fields, so that    *)
(* "2020-01-15" is <<2020, 1, 15>>, "2020-01" is <<2020, 1>>, "2020" is    *)
(* <<2020>>; string comparison is lexicographic comparison of the tuples.  *)
(* None / NaN / NaT are the empty tuple.                                   *)
(***************************************************************************)
EXTENDS Integers, Sequences, FiniteSets, TLC

VARIABLES gdf, hexes, args, result, status, op

vars == <<gdf, hexes, args, result, status, op>>

---------------------------------------------------------------------------
(* Bounds of the model *)

MaxRows == 2

MaxFeatures == 2

\* the finest resolution of the cells of the model; polygons are unions of
\* cells of this resolution
MaxRes == 2

---------------------------------------------------------------------------
(* Attribute values: null (None / NaN), text, or a number n/d in lowest    *)
(* terms (a float; the mean of integers is a fraction)                     *)

Null == [k |-> "null", n |-> 0, d |-> 1]

Text == [k |-> "text", n |-> 0, d |-> 1]

RECURSIVE Gcd(_, _)
Gcd(a, b) == IF b = 0 THEN a ELSE Gcd(b, a % b)

Abs(x) == IF x < 0 THEN -x ELSE x

Frac(n, d) ==
    LET g == Gcd(Abs(n), d)
    IN  [k |-> "num", n |-> n \div g, d |-> d \div g]

Num(n) == Frac(n, 1)

IsNum(v) == v.k = "num"

FLess(a, b) == a.n * b.d < b.n * a.d

FAdd(a, b) == Frac(a.n * b.d + b.n * a.d, a.d * b.d)

---------------------------------------------------------------------------
(* Dates *)

NoDate == <<>>

\* lexicographic (string) order on date strings
DateLess(a, b) ==
    \E i \in 1..(Len(a) + 1) :
        /\ i <= Len(b)
        /\ \A j \in 1..(i - 1) : a[j] = b[j]
        /\ (i > Len(a) \/ a[i] < b[i])

\* pd.to_datetime on a date string; a missing month or day parses as 1,
\* None parses as NaT
to_datetime(s) ==
    IF Len(s) = 0 THEN NoDate
    ELSE <<s[1], IF Len(s) >= 2 THEN s[2] ELSE 1, IF Len(s) >= 3 THEN s[3] ELSE 1>>

\* Series.dt.strftime: the number of fields of the format; NaT gives NaN
FormatFields(fmt) ==
    CASE fmt = "%Y-%m-%d" -> 3
      [] fmt = "%Y-%m" -> 2
      [] fmt = "%Y" -> 1

strftime(dt, fmt) ==
    IF dt = NoDate THEN NoDate ELSE SubSeq(dt, 1, FormatFields(fmt))

---------------------------------------------------------------------------
(* The H3 grid: a cell is its resolution and its index among the cells of  *)
(* that resolution (one base cell, aperture 7)                             *)

Cell(r, i) == [res |-> r, idx |-> i]

RECURSIVE Pow7(_)
Pow7(k) == IF k <= 0 THEN 1 ELSE 7 * Pow7(k - 1)

\* resolutions of the grid
ValidRes(r) == r >= 0 /\ r <= 15

\* h3.cell_to_parent succeeds: the resolution is in range and not finer
\* than the cell's own (an equal resolution returns the cell itself)
CanParent(h, r) == ValidRes(r) /\ r <= h.res

cell_to_parent(h, r) == Cell(r, h.idx \div Pow7(h.res - r))

\* order of the cell ids (as hex strings of equal length, or as numbers):
\* the resolution bits are above the digits
HexLess(a, b) == a.res < b.res \/ (a.res = b.res /\ a.idx < b.idx)

\* h3.cell_to_boundary as a polygon: the part of the plane the cell covers,
\* as the set of the finest cells it contains
hex_to_polygon(h) ==
    LET w == Pow7(MaxRes - h.res) IN (h.idx * w)..(h.idx * w + w - 1)

NoGeom == {}

\* GeoSeries.intersects
intersects(p, q) == p \cap q # {}

NoRegion == [given |-> FALSE, cells |-> {}]

Region(S) == [given |-> TRUE, cells |-> S]

---------------------------------------------------------------------------
(* Data frames *)

EmptyFrame ==
    [cols |-> {}, numeric |-> {}, hasDate |-> FALSE, hasGeom |-> FALSE,
     rows |-> <<>>]

\* dtype inference of the DataFrame constructor: a column is numeric when it
\* holds numbers (and NaN) only; a column holding a string, or None only, has
\* dtype object
InferNumeric(cols, rows) ==
    {c \in cols :
        /\ \E i \in 1..Len(rows) : IsNum(rows[i].attrs[c])
        /\ \A i \in 1..Len(rows) : rows[i].attrs[c].k # "text"}

Ok(f) == [status |-> "ok", frame |-> f]

Raise(e) == [status |-> e, frame |-> EmptyFrame]

\* the sequence s ordered by the relation less on its positions (less[i][j]:
\* s[i] is before s[j]), ties in the order of s
SortBy(s, less) ==
    LET n == Len(s)
        before(i, j) == less[i][j] \/ (i < j /\ ~less[j][i])
        rank == [i \in 1..n |-> Cardinality({j \in 1..n : before(j, i)}) + 1]
    IN  [p \in 1..n |-> s[CHOOSE i \in 1..n : rank[i] = p]]

\* the elements of a set as a sequence, in some order
RECURSIVE SetToSeq(_)
SetToSeq(S) ==
    IF S = {} THEN <<>>
    ELSE LET x == CHOOSE y \in S : TRUE IN <<x>> \o SetToSeq(S \ {x})

---------------------------------------------------------------------------
(* h3_aggregation *)

TimeAggs == {"none", "daily", "monthly", "yearly"}

Strategies == {"mean", "sum", "min", "max"}

\* lines 65-70: the format of the time_group column
TimeFormat(time_agg) ==
    CASE time_agg = "daily" -> "%Y-%m-%d"
      [] time_agg = "monthly" -> "%Y-%m"
      [] time_agg = "yearly" -> "%Y"

\* lines 60-78: the second grouping column of a row: time_group when a time
\* aggregation is asked for, the date column itself otherwise
time_group(date, time_agg) ==
    IF time_agg # "none"
    THEN strftime(to_datetime(date), TimeFormat(time_agg))
    ELSE date

\* lines 57, 75, 78: the values of group_cols of a row
group_key(row, resolution, time_agg) ==
    [hex |-> cell_to_parent(row.hex, resolution),
     date |-> time_group(row.date, time_agg)]

\* lines 81-83: the columns that are aggregated
numeric_cols(df) == df.numeric

RECURSIVE FSum(_)
FSum(s) == IF Len(s) = 0 THEN Num(0) ELSE FAdd(s[1], FSum(Tail(s)))

\* a pandas reduction of the values of one column in one group: NaN are
\* skipped; the sum of no value is 0, the others are NaN
reduce(strategy, vals) ==
    LET present == SelectSeq(vals, IsNum)
        n == Len(present)
    IN  CASE strategy = "sum" -> FSum(present)
          [] n = 0 -> Null
          [] strategy = "mean" ->
                LET t == FSum(present) IN Frac(t.n, t.d * n)
          [] strategy = "min" ->
                present[CHOOSE i \in 1..n : \A j \in 1..n : ~FLess(present[j], present[i])]
          [] strategy = "max" ->
                present[CHOOSE i \in 1..n : \A j \in 1..n : ~FLess(present[i], present[j])]

\* order of the group keys, the order groupby returns the groups in
KeyLess(a, b) ==
    HexLess(a.hex, b.hex) \/ (a.hex = b.hex /\ DateLess(a.date, b.date))

\* lines 85-105: df.groupby(group_cols).agg(agg_dict).reset_index() with the
\* renames: one row per group key, rows with a null key dropped (dropna),
\* count the number of rows of the group (for an input that has a numeric
\* column named count of its own the code returns two columns of that name;
\* the record holds the number of rows)
groupby_agg(df, resolution, time_agg, strategy) ==
    LET rows == df.rows
        key == [i \in 1..Len(rows) |-> group_key(rows[i], resolution, time_agg)]
        kept == {i \in 1..Len(rows) : key[i].date # NoDate}
        keys == {key[i] : i \in kept}
        unsorted == SetToSeq(keys)
        keyseq == SortBy(unsorted, [i \in DOMAIN unsorted |-> [j \in DOMAIN unsorted |->
                                       KeyLess(unsorted[i], unsorted[j])]])
        agg(k) ==
            LET members == SelectSeq(rows, LAMBDA r :
                               group_key(r, resolution, time_agg) = k)
            IN  [hex |-> k.hex, date |-> k.date, geometry |-> NoGeom,
                 attrs |-> [c \in numeric_cols(df) \cup {"count"} |->
                              IF c = "count" THEN Num(Len(members))
                              ELSE reduce(strategy,
                                          [p \in 1..Len(members) |->
                                             members[p].attrs[c]])]]
    IN  [p \in 1..Len(keyseq) |-> agg(keyseq[p])]

\* lines 108-120: the geometry column
add_geometry(rows, include_geometry) ==
    IF include_geometry
    THEN [p \in 1..Len(rows) |->
            [rows[p] EXCEPT !.geometry = hex_to_polygon(rows[p].hex)]]
    ELSE rows

\* a region filter that reconstructs the boundary itself, whether or not the
\* geometry column was asked for
region_filter_without_geometry(rows, region, include_geometry) ==
    IF region.given
    THEN SelectSeq(rows, LAMBDA r : intersects(hex_to_polygon(r.hex), region.cells))
    ELSE rows

\* lines 123-124: the region filter
region_filter(rows, region, include_geometry) ==
    IF region.given /\ include_geometry
    THEN SelectSeq(rows, LAMBDA r : intersects(r.geometry, region.cells))
    ELSE rows

\* a result that keeps the time_group strings as its dates
restore_date_as_bucket(rows, time_agg) == rows

\* lines 127-129: the date column of the result
restore_date(rows, time_agg) ==
    IF time_agg # "none"
    THEN [p \in 1..Len(rows) |->
            [rows[p] EXCEPT !.date = strftime(to_datetime(rows[p].date), "%Y-%m-%d")]]
    ELSE rows

\* line 133: sort_values(by=['date', 'hex'])
RowLess(a, b) ==
    DateLess(a.date, b.date) \/ (a.date = b.date /\ HexLess(a.hex, b.hex))

\* a sort by hex, then date (the order the comment of line 132 names)
RowLessHexFirst(a, b) ==
    HexLess(a.hex, b.hex) \/ (a.hex = b.hex /\ DateLess(a.date, b.date))

sort_values_by_hex(rows) ==
    SortBy(rows, [i \in DOMAIN rows |-> [j \in DOMAIN rows |->
                    RowLessHexFirst(rows[i], rows[j])]])

sort_values(rows) ==
    SortBy(rows, [i \in DOMAIN rows |-> [j \in DOMAIN rows |->
                    RowLess(rows[i], rows[j])]])

\* the whole function; the input always has its 'hex' column (lines 49-50)
h3_aggregation(hx, region, resolution, time_agg, strategy, include_geometry) ==
    IF Len(hx.rows) = 0 THEN Ok(EmptyFrame)
    ELSE IF time_agg # "none" /\ ~hx.hasDate THEN Raise("ValueError")
    ELSE IF \E i \in 1..Len(hx.rows) : ~CanParent(hx.rows[i].hex, resolution)
         THEN Raise("H3Error")
    ELSE IF time_agg \notin TimeAggs THEN Raise("ValueError")
    ELSE IF time_agg = "none" /\ ~hx.hasDate THEN Raise("KeyError")
    ELSE LET agg_df == groupby_agg(hx, resolution, time_agg, strategy)
             with_geom == add_geometry(agg_df, include_geometry)
             filtered == region_filter(with_geom, region, include_geometry)
             dated == restore_date(filtered, time_agg)
         IN  Ok([cols |-> numeric_cols(hx) \cup {"count"},
                 numeric |-> numeric_cols(hx) \cup {"count"},
                 hasDate |-> TRUE,
                 hasGeom |-> include_geometry,
                 rows |-> sort_values(dated)])

---------------------------------------------------------------------------
(* vector_to_h3 *)

\* a geometry of the input: None, an invalid polygon, or a valid polygon (the
\* union of the finest cells in `cells`); an invalid polygon (a ring that
\* crosses itself) still has coordinates, which cover cells
NoGeometry == [kind |-> "none", cells |-> {}]

InvalidGeometry == [kind |-> "invalid", cells |-> {0, 1}]

Polygon(S) == [kind |-> "polygon", cells |-> S]

\* a test that skips a missing geometry only
skipped_when_missing(geometry) == geometry.kind = "none"

\* line 43: geometry is None or not geometry.is_valid
skipped(geometry) == geometry.kind # "polygon"

\* h3.geo_to_cells: the cells of the resolution whose centre lies inside the
\* polygon (the centre of a cell is the centre of its centre child), in the
\* order of their ids
geo_to_cells(geometry, resolution) ==
    LET inside(i) ==
            IF resolution <= MaxRes
            THEN i * Pow7(MaxRes - resolution) \in geometry.cells
            ELSE i \div Pow7(resolution - MaxRes) \in geometry.cells
        found == {Cell(resolution, i) : i \in {j \in 0..(Pow7(resolution) - 1) : inside(j)}}
        cells == SetToSeq(found)
    IN  SortBy(cells, [i \in DOMAIN cells |-> [j \in DOMAIN cells |->
                          HexLess(cells[i], cells[j])]])

\* an iteration that adds one row per feature, of the first of its cells
h3_rows_of_first_cell(row, resolution, include_geometry) ==
    IF skipped(row.geometry) THEN <<>>
    ELSE IF ~ValidRes(resolution) THEN <<>>
    ELSE LET h3_cells == geo_to_cells(row.geometry, resolution)
         IN  [p \in 1..(IF Len(h3_cells) = 0 THEN 0 ELSE 1) |->
                [hex |-> h3_cells[p],
                 date |-> row.date,
                 geometry |-> IF include_geometry
                              THEN hex_to_polygon(h3_cells[p]) ELSE NoGeom,
                 attrs |-> row.attrs]]

\* lines 39-75, one iteration: the rows one input row adds to h3_rows
h3_rows_of(row, resolution, include_geometry) ==
    IF skipped(row.geometry) THEN <<>>
    ELSE IF ~ValidRes(resolution) THEN <<>>    \* geo_to_cells raises, caught at line 72
    ELSE LET h3_cells == geo_to_cells(row.geometry, resolution)
         IN  [p \in 1..Len(h3_cells) |->
                [hex |-> h3_cells[p],
                 date |-> row.date,
                 geometry |-> IF include_geometry
                              THEN hex_to_polygon(h3_cells[p]) ELSE NoGeom,
                 attrs |-> row.attrs]]

RECURSIVE h3_rows(_, _, _)
h3_rows(rows, resolution, include_geometry) ==
    IF Len(rows) = 0 THEN <<>>
    ELSE h3_rows_of(Head(rows), resolution, include_geometry)
            \o h3_rows(Tail(rows), resolution, include_geometry)

vector_to_h3(g, resolution, region, include_geometry) ==
    IF Len(g.rows) = 0 THEN Ok(EmptyFrame)
    ELSE LET new == h3_rows(g.rows, resolution, include_geometry)
         IN  IF Len(new) = 0 THEN Ok(EmptyFrame)
             ELSE Ok([cols |-> g.cols,
                      numeric |-> InferNumeric(g.cols, new),
                      hasDate |-> g.hasDate,
                      hasGeom |-> include_geometry,
                      rows |-> region_filter(new, region, include_geometry)])

---------------------------------------------------------------------------
(* The inputs of the model *)

SeqsUpTo(S, n) == UNION {[1..k -> S] : k \in 0..n}

CellSeq == <<Cell(MaxRes, 0), Cell(MaxRes, 1), Cell(MaxRes, 7)>>

DateSeq == <<NoDate, <<2020, 1, 15>>, <<2020, 2, 10>>>>

\* the values of an attribute column of the input: a column of floats (with
\* nulls), or a column of strings
ColumnValues == {<<Null, Num(10), Num(20)>>, <<Text>>}

Range(s) == {s[i] : i \in DOMAIN s}

Cells == Range(CellSeq)

Dates == Range(DateSeq) \ {NoDate}

Regions == {NoRegion, Region({1})}

\* the rows of the input frames in a fixed order; without a date column every
\* date is None
HexRowSeq(hasDate, values) ==
    LET nd == IF hasDate THEN Len(DateSeq) ELSE 1
        nv == Len(values)
    IN  [i \in 1..(Len(CellSeq) * nd * nv) |->
           [hex |-> CellSeq[((i - 1) \div (nd * nv)) + 1],
            date |-> DateSeq[(((i - 1) \div nv) % nd) + 1],
            geometry |-> NoGeom,
            attrs |-> [c \in {"value"} |-> values[((i - 1) % nv) + 1]]]]

HexFrame(hasDate, rows) ==
    [cols |-> {"value"}, numeric |-> InferNumeric({"value"}, rows),
     hasDate |-> hasDate, hasGeom |-> FALSE, rows |-> rows]

\* the input frames of h3_aggregation: with or without a date column, up to
\* MaxRows rows; the result does not depend on the order of the input rows,
\* and one order of each collection of rows is drawn
HexInputs ==
    UNION {LET u == HexRowSeq(t[1], t[2])
           IN  {HexFrame(t[1], [p \in DOMAIN pick |-> u[pick[p]]]) :
                  pick \in {q \in SeqsUpTo(1..Len(u), MaxRows) :
                              \A i \in 1..(Len(q) - 1) : q[i] <= q[i + 1]}} :
             t \in BOOLEAN \X ColumnValues}

\* resolutions of a call of h3_aggregation: coarser than the cells, equal,
\* finer
AggResolutions == {MaxRes - 1, MaxRes, MaxRes + 1}

Geometries ==
    {NoGeometry, InvalidGeometry, Polygon({1}), Polygon({0, 1}), Polygon({0, 7})}

GdfRows(hasDate) ==
    [geometry : Geometries,
     date : IF hasDate THEN {<<2020, 1, 15>>} ELSE {NoDate},
     attrs : [{"value"} -> {Text, Num(10)}]]

GdfFrame(hasDate, rows) ==
    [cols |-> {"value"}, numeric |-> InferNumeric({"value"}, rows),
     hasDate |-> hasDate, hasGeom |-> TRUE, rows |-> rows]

GdfInputs ==
    UNION {{GdfFrame(hd, rows) : rows \in SeqsUpTo(GdfRows(hd), MaxFeatures)} :
             hd \in BOOLEAN}

\* resolutions of a call of vector_to_h3: below the grid's range, valid,
\* above the range
IndexResolutions == {-1, MaxRes - 1, MaxRes, 16}

---------------------------------------------------------------------------
(* The state machine: the caller holds the argument frame of the function  *)
(* it is about to call (op, status "ready"); a call computes the result or *)
(* raises                                                                  *)

\* the defaults of the signatures (h3_aggregation.py line 9)
DefaultArgs ==
    [region |-> NoRegion, resolution |-> 8, time_agg |-> "none",
     strategy |-> "mean", include_geometry |-> FALSE]

Init ==
    /\ status = "ready"
    /\ args = DefaultArgs
    /\ result = EmptyFrame
    /\ \/ op = "vector_to_h3" /\ gdf \in GdfInputs /\ hexes = EmptyFrame
       \/ op = "h3_aggregation" /\ hexes \in HexInputs /\ gdf = EmptyFrame

Call_vector_to_h3 ==
    /\ op = "vector_to_h3"
    /\ status = "ready"
    /\ \E resolution \in IndexResolutions, region \in Regions,
          include_geometry \in BOOLEAN :
         \E r \in {vector_to_h3(gdf, resolution, region, include_geometry)} :
             /\ args' = [DefaultArgs EXCEPT !.resolution = resolution,
                                            !.region = region,
                                            !.include_geometry = include_geometry]
             /\ status' = r.status
             /\ result' = r.frame
    /\ UNCHANGED <<gdf, hexes, op>>

Call_h3_aggregation ==
    /\ op = "h3_aggregation"
    /\ status = "ready"
    /\ \E resolution \in AggResolutions, region \in Regions,
          time_agg \in TimeAggs, strategy \in Strategies,
          include_geometry \in BOOLEAN :
         \E r \in {h3_aggregation(hexes, region, resolution, time_agg, strategy,
                                 include_geometry)} :
             /\ args' = [region |-> region, resolution |-> resolution,
                         time_agg |-> time_agg, strategy |-> strategy,
                         include_geometry |-> include_geometry]
             /\ status' = r.status
             /\ result' = r.frame
    /\ UNCHANGED <<gdf, hexes, op>>

Next == Call_vector_to_h3 \/ Call_h3_aggregation

Spec == Init /\ [][Next]_vars

---------------------------------------------------------------------------
(* Properties of h3_aggregation (aggregate) and vector_to_h3 (index)       *)

\* a call of h3_aggregation on a non-empty input has ended
Aggregated == op = "h3_aggregation" /\ status # "ready" /\ Len(hexes.rows) > 0

\* ... and returned a frame
AggregatedOk == Aggregated /\ status = "ok"

\* the region filter was applied
RegionApplied == args.region.given /\ args.include_geometry

\* the target resolution is strictly coarser than every input cell
StrictlyCoarser == \A i \in 1..Len(hexes.rows) : args.resolution < hexes.rows[i].hex.res

\* every input row has a date
AllDated == hexes.hasDate /\ \A i \in 1..Len(hexes.rows) : hexes.rows[i].date # NoDate

RECURSIVE SumCounts(_)
SumCounts(rows) ==
    IF Len(rows) = 0 THEN 0 ELSE Head(rows).attrs["count"].n + SumCounts(Tail(rows))

\* the time bucket of a date: the date truncated to day, month or year
TimeBucket(date, granularity) ==
    CASE granularity = "daily" -> SubSeq(date, 1, 3)
      [] granularity = "monthly" -> SubSeq(date, 1, 2)
      [] granularity = "yearly" -> SubSeq(date, 1, 1)

\* the parent cell of an input row at the target resolution
ParentOf(row) == Cell(args.resolution, row.hex.idx \div Pow7(row.hex.res - args.resolution))

\* C1 (as claimed): without region filtering, the counts of the returned
\* records add up to the number of input records, whatever the granularity,
\* also when some input records have a null date or null values.
C1_CountConservation ==
    (AggregatedOk /\ ~RegionApplied) => SumCounts(result.rows) = Len(hexes.rows)

\* the members of the group of an output record, as the claims define groups:
\* the input rows with its parent cell and, when a granularity is given, with
\* its time bucket (the output date is the bucket or the bucket's first day)
GroupOf(r) ==
    SelectSeq(hexes.rows, LAMBDA x :
        /\ ParentOf(x) = r.hex
        /\ args.time_agg # "none" =>
             /\ x.date # NoDate
             /\ \/ TimeBucket(x.date, args.time_agg) = r.date
                \/ to_datetime(TimeBucket(x.date, args.time_agg)) = r.date)

\* the reduction of the values present in a group, as the claim defines it
Present(rows) == SelectSeq([p \in 1..Len(rows) |-> rows[p].attrs["value"]], IsNum)

Reduced(strategy, vals) ==
    CASE strategy = "sum" -> FSum(vals)
      [] strategy = "mean" -> Frac(FSum(vals).n, FSum(vals).d * Len(vals))
      [] strategy = "min" ->
            CHOOSE v \in Range(vals) : \A w \in Range(vals) : ~FLess(w, v)
      [] strategy = "max" ->
            CHOOSE v \in Range(vals) : \A w \in Range(vals) : ~FLess(v, w)

\* C2 (as claimed): in each (parent cell, time bucket) group an attribute that
\* is numeric on some member is reduced over the members holding a value, and
\* count is the number of all members (stated for the inputs whose records
\* all carry a date).
C2_Reduction ==
    (AggregatedOk /\ AllDated) =>
        \A p \in 1..Len(result.rows) :
            LET r == result.rows[p]
                g == GroupOf(r)
            IN  /\ r.attrs["count"] = Num(Len(g))
                /\ Len(Present(g)) > 0 =>
                     /\ "value" \in DOMAIN r.attrs
                     /\ r.attrs["value"] = Reduced(args.strategy, Present(g))

\* C3 (as claimed): with no time granularity the group key is the parent cell
\* alone: one record per parent cell of the input, and no date in the output
\* (stated for the inputs whose records all carry a date).
C3_NoneGroupsByParent ==
    (AggregatedOk /\ AllDated /\ args.time_agg = "none" /\ ~RegionApplied) =>
        /\ ~result.hasDate
        /\ \A i \in 1..Len(hexes.rows) :
             Cardinality({p \in 1..Len(result.rows) :
                            result.rows[p].hex = ParentOf(hexes.rows[i])}) = 1

\* C4 (as claimed): a target resolution equal to or finer than the resolution
\* of an input record makes the call fail with InvalidResolution, with no
\* output (stated for the inputs whose records all carry a date).
C4_InvalidResolution ==
    (/\ Aggregated
     /\ AllDated
     /\ \E i \in 1..Len(hexes.rows) : args.resolution >= hexes.rows[i].hex.res)
        => status = "H3Error" /\ result = EmptyFrame

\* C5 (as claimed): with a time granularity, an input record without a date
\* makes the call fail with InvalidInput, also when the date column exists and
\* one record's date is null (stated for calls with a valid resolution).
C5_MissingDate ==
    (/\ Aggregated
     /\ StrictlyCoarser
     /\ args.time_agg # "none"
     /\ ~AllDated)
        => status = "ValueError" /\ result = EmptyFrame

\* the first day of the time bucket of a date, as a full date
FirstDay(date, granularity) ==
    CASE granularity = "daily" -> date
      [] granularity = "monthly" -> <<date[1], date[2], 1>>
      [] granularity = "yearly" -> <<date[1], 1, 1>>

\* C6 (as claimed): the date of every returned record is the time-bucket
\* string of its group: the input date truncated to YYYY-MM-DD, YYYY-MM or
\* YYYY.
C6_DateIsBucket ==
    (AggregatedOk /\ args.time_agg # "none") =>
        \A p \in 1..Len(result.rows) :
            \E i \in 1..Len(hexes.rows) :
                /\ hexes.rows[i].date # NoDate
                /\ ParentOf(hexes.rows[i]) = result.rows[p].hex
                /\ result.rows[p].date = TimeBucket(hexes.rows[i].date, args.time_agg)

\* C6 (amended): the date of every returned record is the first day of the
\* time bucket of its group as a full YYYY-MM-DD date: the input date for
\* daily, YYYY-MM-01 for monthly, YYYY-01-01 for yearly.
C6_DateIsFirstDayOfBucket ==
    (AggregatedOk /\ args.time_agg # "none") =>
        \A p \in 1..Len(result.rows) :
            /\ Len(result.rows[p].date) = 3
            /\ \E i \in 1..Len(hexes.rows) :
                /\ hexes.rows[i].date # NoDate
                /\ ParentOf(hexes.rows[i]) = result.rows[p].hex
                /\ result.rows[p].date = FirstDay(hexes.rows[i].date, args.time_agg)

\* C6 witness: a monthly roll-up of a record dated 2020-01-15 returned a
\* record dated 2020-01-01
C6_Witness ==
    /\ AggregatedOk
    /\ StrictlyCoarser
    /\ args.time_agg = "monthly"
    /\ \E i \in 1..Len(hexes.rows) : hexes.rows[i].date = <<2020, 1, 15>>
    /\ \E p \in 1..Len(result.rows) : result.rows[p].date = <<2020, 1, 1>>

\* the (parent cell, time bucket) pair of an output record matches that of an
\* input record
SameGroup(r, x) ==
    /\ r.hex = ParentOf(x)
    /\ args.time_agg # "none" =>
         \/ r.date = TimeBucket(x.date, args.time_agg)
         \/ r.date = to_datetime(TimeBucket(x.date, args.time_agg))

\* C7 (as claimed): exactly one returned record per (parent cell, time bucket)
\* pair of the input (per parent cell when no granularity is given), no two
\* returned records with the same pair, every count at least 1 (stated for
\* the inputs whose records all carry a date).
C7_GroupUniqueness ==
    (AggregatedOk /\ AllDated /\ ~RegionApplied) =>
        /\ \A i \in 1..Len(hexes.rows) :
             Cardinality({p \in 1..Len(result.rows) :
                            SameGroup(result.rows[p], hexes.rows[i])}) = 1
        /\ \A p, q \in 1..Len(result.rows) :
             (/\ result.rows[p].hex = result.rows[q].hex
              /\ args.time_agg # "none" => result.rows[p].date = result.rows[q].date)
                => p = q
        /\ \A p \in 1..Len(result.rows) : result.rows[p].attrs["count"].n >= 1

\* a call of vector_to_h3 has ended
Indexed == op = "vector_to_h3" /\ status # "ready"

\* C8 (as claimed): index with a resolution outside 0..15 fails the whole
\* call with InvalidResolution (stated for inputs with a valid polygon).
C8_IndexInvalidResolution ==
    (/\ Indexed
     /\ \E i \in 1..Len(gdf.rows) : gdf.rows[i].geometry.kind = "polygon"
     /\ (args.resolution < 0 \/ args.resolution > 15))
        => status = "H3Error"

Unfiltered ==
    h3_aggregation(hexes, NoRegion, args.resolution, args.time_agg,
                   args.strategy, args.include_geometry).frame

ValidFeatures ==
    [gdf EXCEPT !.rows = SelectSeq(gdf.rows, LAMBDA f : f.geometry.kind = "polygon")]

\* C11: a feature whose boundary is missing or invalid is omitted and never
\* makes the call fail: the call returns normally, with the result of the
\* same call on the input without these features.
C11_SkipInvalid ==
    Indexed =>
        /\ status = "ok"
        /\ result = vector_to_h3(ValidFeatures, args.resolution, args.region,
                                 args.include_geometry).frame

\* C11 witness: a call on an input with an invalid feature and one valid
\* feature returned records, all of them of the valid feature
C11_Witness ==
    /\ Indexed
    /\ status = "ok"
    /\ \E i \in 1..Len(gdf.rows) : gdf.rows[i].geometry.kind = "invalid"
    /\ Len(ValidFeatures.rows) = 1
    /\ Len(result.rows) >= 1
    /\ \A p \in 1..Len(result.rows) :
          result.rows[p].attrs = ValidFeatures.rows[1].attrs

\* the attribute names of the input that hold a number on some record, and
\* those that hold a text
NumericNames ==
    {c \in hexes.cols : \E i \in 1..Len(hexes.rows) : IsNum(hexes.rows[i].attrs[c])}

TextNames ==
    {c \in hexes.cols : \E i \in 1..Len(hexes.rows) : hexes.rows[i].attrs[c].k = "text"}

\* the attributes of the returned records are the numeric attribute names of
\* the input and count; no text attribute is among them; every input record
\* has a returned record of its parent cell, which carries count only when
\* the input has no numeric attribute
AttributesAreNumericAndCount ==
    /\ result.cols = NumericNames \cup {"count"}
    /\ \A p \in 1..Len(result.rows) :
          /\ DOMAIN result.rows[p].attrs = NumericNames \cup {"count"}
          /\ DOMAIN result.rows[p].attrs \cap TextNames = {}
    /\ ~RegionApplied =>
          \A i \in 1..Len(hexes.rows) :
              \E p \in 1..Len(result.rows) :
                  /\ result.rows[p].hex = ParentOf(hexes.rows[i])
                  /\ NumericNames = {} => DOMAIN result.rows[p].attrs = {"count"}

\* C12 (as claimed): the returned records carry exactly the numeric attribute
\* names of the input and count, a date when a time granularity is asked for
\* and only then, a geometry when include_geometry is set and only then; a
\* text attribute is never carried, and an input without a numeric attribute
\* gives records with count only (stated for the inputs whose records all
\* carry a date).
C12_OutputSchema ==
    (AggregatedOk /\ AllDated) =>
        /\ AttributesAreNumericAndCount
        /\ result.hasDate <=> args.time_agg # "none"
        /\ result.hasGeom <=> args.include_geometry

\* cellsCoveringPolygon of the feature j of the input at the requested
\* resolution: the cells whose centre (the centre of their centre child at the
\* finest resolution) lies inside the boundary; none for a skipped feature
Covered(j) ==
    IF gdf.rows[j].geometry.kind # "polygon" THEN {}
    ELSE {Cell(args.resolution, i) :
            i \in {k \in 0..(Pow7(args.resolution) - 1) :
                     k * Pow7(MaxRes - args.resolution) \in gdf.rows[j].geometry.cells}}

RECURSIVE SumCovered(_, _)
SumCovered(j, kept) ==
    IF j = 0 THEN 0 ELSE Cardinality(Covered(j) \cap kept) + SumCovered(j - 1, kept)

\* the returned records are one per (feature, covered cell of `kept`), with
\* the attributes and the date of the feature and a cell of the requested
\* resolution; equal records of different features are all there
EmitsOnePerCell(kept) ==
    /\ \A p \in 1..Len(result.rows) : result.rows[p].hex.res = args.resolution
    /\ Len(result.rows) = SumCovered(Len(gdf.rows), kept)
    /\ \A j \in 1..Len(gdf.rows) :
          \A c \in Covered(j) \cap kept :
              Cardinality({p \in 1..Len(result.rows) :
                             /\ result.rows[p].hex = c
                             /\ result.rows[p].attrs = gdf.rows[j].attrs
                             /\ result.rows[p].date = gdf.rows[j].date})
                = Cardinality({k \in 1..Len(gdf.rows) :
                                 /\ c \in Covered(k)
                                 /\ gdf.rows[k].attrs = gdf.rows[j].attrs
                                 /\ gdf.rows[k].date = gdf.rows[j].date})

\* the cells of the requested resolution
AllCells == {Cell(args.resolution, i) : i \in 0..(Pow7(args.resolution) - 1)}

\* a call of vector_to_h3 with a resolution of the grid has returned
IndexedOk ==
    Indexed /\ status = "ok" /\ args.resolution >= 0 /\ args.resolution <= MaxRes

\* C13 (as claimed): for each valid feature and each cell covering it at the
\* requested resolution the call returns exactly one record with the
\* feature's attributes and date and a cell of that resolution; the number of
\* returned records is the sum of the per-feature cell counts, in every call.
C13_Emission == IndexedOk => EmitsOnePerCell(AllCells)

\* C13 (amended): the same for the calls that apply no region filter; a call
\* with a region and include_geometry returns one record per feature and
\* covering cell whose boundary intersects the region, and no other.
C13_EmissionBeforeRegionFilter ==
    IndexedOk =>
        EmitsOnePerCell(IF RegionApplied
                        THEN {c \in AllCells :
                                intersects(hex_to_polygon(c), args.region.cells)}
                        ELSE AllCells)

\* C13 witness: a call without region filter on two features that cover the
\* same cell, one of them covering two cells, returned three records, two of
\* them of the shared cell
C13_Witness ==
    /\ IndexedOk
    /\ ~RegionApplied
    /\ Len(gdf.rows) = 2
    /\ Cardinality(Covered(1)) = 2
    /\ Cardinality(Covered(2)) = 1
    /\ Covered(2) \subseteq Covered(1)
    /\ Len(result.rows) = 3
    /\ \E p, q \in 1..Len(result.rows) :
          p # q /\ result.rows[p].hex = result.rows[q].hex

\* the result of feeding the returned frame back into h3_aggregation with
\* the same arguments
Reaggregated ==
    h3_aggregation(result, args.region, args.resolution, args.time_agg,
                   args.strategy, args.include_geometry)

\* the second call returns the records of the first, with the same value of
\* every numeric attribute of the input
SameAsFirstCall ==
    /\ Reaggregated.status = "ok"
    /\ Len(Reaggregated.frame.rows) = Len(result.rows)
    /\ \A p \in 1..Len(result.rows) :
          /\ Reaggregated.frame.rows[p].hex = result.rows[p].hex
          /\ Reaggregated.frame.rows[p].date = result.rows[p].date
          /\ \A c \in NumericNames :
                Reaggregated.frame.rows[p].attrs[c] = result.rows[p].attrs[c]

\* the value of every returned record of the first call is the greatest of
\* the values of its (parent cell, time bucket) group
MaxOfGroup ==
    \A p \in 1..Len(result.rows) :
        \A c \in NumericNames :
            LET g == GroupOf(result.rows[p])
            IN  Len(Present(g)) > 0 =>
                    result.rows[p].attrs[c] = Reduced("max", Present(g))

\* C14 (as claimed): aggregating with max the output of an aggregation with
\* max, at the same target resolution and time granularity, returns for
\* every (parent cell, time bucket) group the value of the first call, which
\* is the greatest of the original values of the group (stated for the
\* inputs whose records all carry a date).
C14_MaxClosure ==
    (AggregatedOk /\ AllDated /\ args.strategy = "max") =>
        SameAsFirstCall /\ MaxOfGroup

====
